---- MODULE Spec2Model ----
(***************************************************************************)
(* The ping fan-out and retry engine of onwardseo_pinger_tool:             *)
(*   netlify/functions/ping.mts        handler, pingAllServices            *)
(*   netlify/functions/lib/xmlrpc.ts   XML-RPC codec and delivery unit     *)
(*   netlify/functions/lib/websub.ts   WebSub codec and delivery unit      *)
(*                                     (src/unnamed/part_002, lines 1-259) *)
(*   netlify/functions/lib/types.ts    configuration                       *)
(*                                     (src/unnamed/part_002, lines 260-)  *)
(*                                                                         *)
(* Time is in milliseconds.  Text is a sequence of atoms: each substring   *)
(* the code searches for ("timed out", "HTTP 5", ...) is one atom, so that *)
(* String.includes is membership of the atom in the sequence.              *)
(***************************************************************************)
EXTENDS Integers, Sequences, FiniteSets, TLC

(***************************************************************************)
(* Configuration (types.ts)                                                *)
(***************************************************************************)
DEFAULT_RETRY_COUNT == 1
RETRY_DELAY_MS == 500
MAX_FUNCTION_EXECUTION_MS == 25000
MAX_URLS == 5
MAX_BODY_SIZE == 51200
BATCH_SIZE == 2
\* pingChecker.ts, `const CACHE_TTL = 30000`
CACHE_TTL == 30000
\* ping.mts:119, the literal of `remainingTime < 10000`
SAFETY_MARGIN_MS == 10000
\* websub.ts:69, `let retrySeconds = 60`
DEFAULT_RETRY_AFTER_S == 60

WEBSUB_HUB ==
  [name |-> "Google PubSubHubbub", method |-> "websub", timeout |-> 10000, maxRetries |-> 1]

XMLRPC_SERVICES ==
  << [name |-> "Ping-o-Matic", method |-> "xmlrpc", timeout |-> 10000, maxRetries |-> 1],
     [name |-> "Twingly", method |-> "xmlrpc", timeout |-> 10000, maxRetries |-> 1] >>

\* the deliveries pingAllServices starts for one URL, in the order it starts them
Services == <<WEBSUB_HUB>> \o XMLRPC_SERVICES

SvcIdx == 1..Len(Services)

(***************************************************************************)
(* Bounds of the model                                                     *)
(***************************************************************************)
\* latency of a remote endpoint that answers before the abort timer fires
FastMs == 5000
\* at most this many remote answers of one request deviate from the nominal
\* answer (a 204 from the hub, flerror=0 from an XML-RPC service, after FastMs)
MaxAnomalies == 3
\* the same bound for the single-URL specification with the rich answers
MaxUnitAnomalies == 2
\* a Retry-After header that holds an integer
RetryAfterInt == 120
\* how long a slowly sent response body takes to arrive after the headers
SlowBodyMs == 12000
\* latency of a nearby endpoint, shorter than the first backoff delay
QuickMs == 100
\* the largest maxRetries a delivery unit is called with
MaxRetriesArg == 2
\* the longest urls array a request submits
MaxItems == 6
\* the size in bytes of a request body of a few URLs
SmallBody == 200
\* the number of entries of PING_SERVICES the browser client runs with
NumPingServices == 2
\* the longest urls array PingController.start is called with
MaxClientUrls == 2
\* how many times start() is called without throwing
MaxRuns == 2
\* how many times pause() makes a pause promise
MaxPauses == 1
\* a stretch of time longer than CACHE_TTL that passes while no timer or request of the
\* client is pending, and how many such stretches pass
LongPause == 31000
MaxElapses == 1
\* the largest maxRequests and timeWindow (ms) a RateLimiter is constructed with, and
\* the instant up to which its clock runs
MaxRequestsArg == 2
MaxWindowArg == 3
MaxLimiterClock == 7
\* the instant (ms on the model's clock) a Retry-After header with an HTTP date names
RetryAfterDate == 7500

(***************************************************************************)
(* Text                                                                    *)
(***************************************************************************)
Includes(text, atom) == \E k \in 1..Len(text) : text[k] = atom

Max(a, b) == IF a >= b THEN a ELSE b

\* 2^n, Math.pow(2, n)
RECURSIVE Pow2(_)
Pow2(n) == IF n <= 0 THEN 1 ELSE 2 * Pow2(n - 1)

\* the first six characters of `HTTP ${status}`
HttpClass(status) ==
  IF status >= 500 /\ status <= 599 THEN "HTTP 5"
  ELSE IF status >= 400 /\ status <= 499 THEN "HTTP 4"
  ELSE IF status >= 300 /\ status <= 399 THEN "HTTP 3"
  ELSE IF status >= 200 /\ status <= 299 THEN "HTTP 2"
  ELSE "HTTP 1"

\* `HTTP ${response.status}: ${response.statusText}`
HttpLine(status, statusText) == <<HttpClass(status), ToString(status), ":">> \o statusText

\* `Request timed out after ${timeout}ms`
TimedOutMessage(timeout) == <<"Request", "timed out", "after", ToString(timeout), "ms">>

\* the value of an absent optional field
UNDEFINED == <<"undefined">>

(***************************************************************************)
(* What a remote endpoint answers to one attempt.                          *)
(*   kind        "http": response headers arrived; "timeout": the abort    *)
(*               timer fired first; "neterr": fetch rejected               *)
(*   status      HTTP status, statusText its reason phrase                 *)
(*   text        the response body as text, trimmed (WebSub error body)    *)
(*   retryAfter  the Retry-After header: [k |-> "absent"], an integer of   *)
(*               seconds [k |-> "int", v |-> n], an HTTP date              *)
(*               [k |-> "date", v |-> ms on the model's clock], or         *)
(*               [k |-> "garbage"] that Date cannot parse                  *)
(*   xml         the structure parseXmlRpcResponse's patterns find in the  *)
(*               body: the flerror member ("absent", "0", or "1" for any   *)
(*               other digits), the message member's text, a <fault>       *)
(*               block and its faultString text                            *)
(*   bodyMs      how long response.text() takes once the headers are in    *)
(*   bodyErr     response.text() rejects (the body stream breaks)          *)
(***************************************************************************)
NoHeader == [k |-> "absent", v |-> 0]

NoXml == [flerror |-> "absent", message |-> UNDEFINED, fault |-> FALSE, faultString |-> UNDEFINED]

HttpReply(status, statusText, text, retryAfter, xml) ==
  [kind |-> "http", status |-> status, statusText |-> statusText, text |-> text,
   retryAfter |-> retryAfter, xml |-> xml, bodyMs |-> 0, bodyErr |-> FALSE]

\* the same answer with a body that takes ms to read, or whose stream breaks by then
WithBody(reply, ms, err) == [reply EXCEPT !.bodyMs = ms, !.bodyErr = err]

TimeoutReply ==
  [kind |-> "timeout", status |-> 0, statusText |-> <<>>, text |-> <<>>,
   retryAfter |-> NoHeader, xml |-> NoXml, bodyMs |-> 0, bodyErr |-> FALSE]

NetErrReply ==
  [kind |-> "neterr", status |-> 0, statusText |-> <<>>, text |-> <<"fetch failed">>,
   retryAfter |-> NoHeader, xml |-> NoXml, bodyMs |-> 0, bodyErr |-> FALSE]

ThanksXml ==
  [flerror |-> "0", message |-> <<"Thanks for the ping!">>, fault |-> FALSE, faultString |-> UNDEFINED]

\* the nominal answers
HubAccepted == HttpReply(204, <<"No Content">>, <<>>, NoHeader, NoXml)
XmlRpcThanks == HttpReply(200, <<"OK">>, <<>>, NoHeader, ThanksXml)

(***************************************************************************)
(* WebSub codec (websub.ts)                                                *)
(***************************************************************************)
\* Math.ceil(a / b) for b > 0
CeilDiv(a, b) == -((-a) \div b)

\* websub.ts:68-87 without the Math.max(0, ...) of line 80
RetrySecondsSigned(h, now) ==
  IF h.k = "int" THEN h.v
  ELSE IF h.k = "date" THEN CeilDiv(h.v - now, 1000)
  ELSE DEFAULT_RETRY_AFTER_S

\* websub.ts:68-87; a header is an integer ("int"), a string Date parses ("date", v
\* its getTime()), or neither
RetrySeconds(h, now) ==
  IF h.k = "int" THEN h.v
  ELSE IF h.k = "date" THEN Max(0, CeilDiv(h.v - now, 1000))
  ELSE DEFAULT_RETRY_AFTER_S

\* The result record of an attempt; statusCode and retryAfter are WebSubResult's,
\* flerror is XmlRpcPingResult's (-1 and FALSE where the type has no such field).
\* rejected tells a promise that rejects from one that resolves with the record.
AttemptResult(success, statusCode, flerror, message, responseTime, retryAfter) ==
  [success |-> success, statusCode |-> statusCode, flerror |-> flerror,
   message |-> message, responseTime |-> responseTime, retryAfter |-> retryAfter,
   rejected |-> FALSE]

\* an exception that no catch block took: the async function's promise rejects
Rejection ==
  [AttemptResult(FALSE, -1, FALSE, UNDEFINED, 0, -1) EXCEPT !.rejected = TRUE]

\* an exception is thrown inside the outer try block of an attempt: fetch rejects
\* (abort or network error), or response.text() of sendXmlRpcPingAttempt rejects
Throws(method, reply) ==
  \/ reply.kind \in {"timeout", "neterr"}
  \/ /\ method = "xmlrpc"
     /\ reply.kind = "http" /\ reply.status >= 200 /\ reply.status < 300
     /\ reply.bodyErr

\* the attempt awaits response.text() (xmlrpc.ts:257, websub.ts:113)
ReadsBody(method, reply) ==
  /\ reply.kind = "http"
  /\ IF method = "xmlrpc"
     THEN reply.status >= 200 /\ reply.status < 300
     ELSE /\ reply.status # 429 /\ reply.status # 503
          /\ ~(reply.status >= 200 /\ reply.status < 300)

\* the catch block of notifyHubAttempt, websub.ts:132-163
CaughtWebSub(reply, responseTime, timeout) ==
  IF reply.kind = "timeout"
  THEN AttemptResult(FALSE, 0, FALSE, TimedOutMessage(timeout), responseTime, -1)
  ELSE AttemptResult(FALSE, 0, FALSE, <<"Network error", ":">> \o reply.text, responseTime, -1)

\* notifyHubAttempt, websub.ts:33-164
NotifyHubAttempt(reply, responseTime, now, timeout) ==
  IF Throws("websub", reply) THEN CaughtWebSub(reply, responseTime, timeout)
  ELSE IF reply.status = 429 \/ reply.status = 503 THEN
    LET retrySeconds == RetrySeconds(reply.retryAfter, now)
    IN  AttemptResult(FALSE, reply.status, FALSE,
          (IF reply.status = 429 THEN <<"Rate limited.">> ELSE <<"Service unavailable.">>)
             \o <<"Retry after", ToString(retrySeconds), "s">>,
          responseTime, retrySeconds)
  ELSE
    LET success == reply.status >= 200 /\ reply.status < 300
        message == IF success THEN <<"Hub notified successfully">>
                   ELSE IF ~reply.bodyErr /\ reply.text # <<>> THEN reply.text
                   ELSE HttpLine(reply.status, reply.statusText)
    IN  AttemptResult(success, reply.status, FALSE, message, responseTime, -1)

\* isRetryableError, websub.ts:23-28
IsRetryableWebSub(result) ==
  \/ Includes(result.message, "timed out")
  \/ Includes(result.message, "Network error")
  \/ (result.statusCode >= 500 /\ result.statusCode < 600)

(***************************************************************************)
(* XML-RPC codec (xmlrpc.ts)                                               *)
(***************************************************************************)
\* a variant of the parser that reads the flerror member only
ParseIgnoringFault(xml) ==
  [flerror |-> IF xml.flerror # "absent" THEN xml.flerror # "0" ELSE FALSE,
   message |-> IF xml.message # UNDEFINED /\ xml.message # <<>>
               THEN xml.message ELSE <<"Response received">>]

\* parseXmlRpcResponse, xmlrpc.ts:137-211
ParseXmlRpcResponse(xml) ==
  LET flerror0 == IF xml.flerror # "absent" THEN xml.flerror # "0" ELSE FALSE
      message0 == IF xml.message # UNDEFINED /\ xml.message # <<>>
                  THEN xml.message ELSE <<"Response received">>
  IN  IF xml.fault
      THEN [flerror |-> TRUE,
            message |-> IF xml.faultString # UNDEFINED /\ xml.faultString # <<>>
                        THEN xml.faultString ELSE message0]
      ELSE [flerror |-> flerror0, message |-> message0]

\* a variant of the catch block that lets the exception go
UncaughtXmlRpc(reply, responseTime, timeout) == Rejection

\* the catch block of sendXmlRpcPingAttempt, xmlrpc.ts:272-310
CaughtXmlRpc(reply, responseTime, timeout) ==
  IF reply.kind = "timeout"
  THEN AttemptResult(FALSE, -1, TRUE, TimedOutMessage(timeout), responseTime, -1)
  ELSE AttemptResult(FALSE, -1, TRUE, <<"Service", "temporarily unavailable">>, responseTime, -1)

\* sendXmlRpcPingAttempt, xmlrpc.ts:216-311
SendXmlRpcPingAttempt(reply, responseTime, now, timeout) ==
  IF Throws("xmlrpc", reply) THEN CaughtXmlRpc(reply, responseTime, timeout)
  ELSE IF ~(reply.status >= 200 /\ reply.status < 300) THEN
    AttemptResult(FALSE, -1, TRUE, HttpLine(reply.status, reply.statusText), responseTime, -1)
  ELSE
    LET parsed == ParseXmlRpcResponse(reply.xml)
    IN  AttemptResult(~parsed.flerror, -1, parsed.flerror, parsed.message, responseTime, -1)

\* a variant of the classification that retries timeouts only
IsRetryableTimeoutOnly(result) == Includes(result.message, "timed out")

\* isRetryableError, xmlrpc.ts:21-26
IsRetryableXmlRpc(result) ==
  \/ Includes(result.message, "timed out")
  \/ Includes(result.message, "temporarily unavailable")
  \/ Includes(result.message, "HTTP 5")

(***************************************************************************)
(* The delivery unit's retry loop, shared shape of notifyHub (websub.ts    *)
(* 184-246) and sendXmlRpcPing (xmlrpc.ts 321-383)                         *)
(***************************************************************************)
AttemptOf(svc, reply, responseTime, now) ==
  IF svc.method = "websub"
  THEN NotifyHubAttempt(reply, responseTime, now, svc.timeout)
  ELSE SendXmlRpcPingAttempt(reply, responseTime, now, svc.timeout)

IsRetryableError(svc, result) ==
  IF svc.method = "websub" THEN IsRetryableWebSub(result) ELSE IsRetryableXmlRpc(result)

\* a variant of the loop condition that allows one attempt more
RetriesRemainInclusive(attempt, maxRetries) == attempt <= maxRetries

\* the loop condition `attempt <= maxRetries` after `attempt++` (websub.ts:193,
\* xmlrpc.ts:330): another attempt follows attempt number `attempt` (0-based)
RetriesRemain(attempt, maxRetries) == attempt + 1 <= maxRetries

\* a variant of the delay that does not grow
BackoffDelayFlat(attempt) == RETRY_DELAY_MS

\* `RETRY_DELAY_MS * Math.pow(2, attempt - 1)`, attempt >= 1 the attempt about to start
BackoffDelay(attempt) == RETRY_DELAY_MS * Pow2(attempt - 1)

\* what the loop returns when an attempt succeeds (websub.ts:206-211, xmlrpc.ts:343-348)
ReturnOnSuccess(result, totalResponseTime) == result

\* a variant of the terminal return that reports the cumulative time
ReturnOnTerminalTotal(result, totalResponseTime) ==
  [result EXCEPT !.responseTime = totalResponseTime]

\* what the loop returns on a non-retryable failure (websub.ts:214-218, xmlrpc.ts:351-355)
ReturnOnTerminal(result, totalResponseTime) == result

\* a variant of the final return that hands back the last attempt's result as it is
ReturnExhaustedLast(lastResult, totalResponseTime, maxRetries) == lastResult

\* what is returned after the loop (websub.ts:227-236, xmlrpc.ts:364-373)
ReturnExhausted(lastResult, totalResponseTime, maxRetries) ==
  [lastResult EXCEPT
     !.message = IF maxRetries > 0
                 THEN @ \o <<"(after", ToString(maxRetries + 1), "attempts)">>
                 ELSE @,
     !.responseTime = totalResponseTime]

(***************************************************************************)
(* Results and aggregation (ping.mts)                                      *)
(***************************************************************************)
\* PingResult, types.ts
PingResult(service, success, message, method, responseTime, error) ==
  [service |-> service, success |-> success, message |-> message, method |-> method,
   responseTime |-> responseTime, error |-> error]

\* the .catch callbacks of pingAllServices, ping.mts:147-158 and 175-186
CatchResult(svc) ==
  PingResult(svc.name, FALSE,
             IF svc.method = "websub" THEN <<"Failed to notify hub">>
             ELSE <<"Service request failed">>,
             svc.method, 0, <<"Request failed">>)

\* the .then callbacks of pingAllServices, ping.mts:137-146 and 165-174, or the
\* .catch callbacks when the delivery's promise rejected
ToPingResult(svc, returned) ==
  IF returned.rejected THEN CatchResult(svc)
  ELSE PingResult(svc.name, returned.success, returned.message, svc.method,
                  returned.responseTime,
                  IF returned.success THEN UNDEFINED ELSE returned.message)

\* the synthetic outcome of a skipped URL, ping.mts:121-128
SystemResult ==
  PingResult("System", FALSE, <<"Function timeout approaching, request skipped">>, "xmlrpc", 0,
             <<"Timeout protection triggered">>)

\* extractSiteName(url) of the u-th URL of the request, ping.mts:90-98
SiteName(u) == <<"site", ToString(u)>>

\* `${r.message} (${extractSiteName(url)})`, ping.mts:297-300
WithUrlContext(urlResults, u) ==
  [k \in 1..Len(urlResults) |->
     [urlResults[k] EXCEPT !.message = @ \o <<"(">> \o SiteName(u) \o <<")">>]]

\* position of a service in the Map's insertion order, 0 when it has no entry
IndexOfService(acc, service) ==
  IF \E k \in 1..Len(acc) : acc[k].service = service
  THEN CHOOSE k \in 1..Len(acc) : acc[k].service = service
  ELSE 0

\* a variant of the loop body that never changes the first outcome of a service
MergeResultKeepFirst(acc, result) ==
  LET k == IndexOfService(acc, result.service)
  IN  IF k = 0 THEN Append(acc, result) ELSE acc

\* a variant of the loop body in which a later success replaces a recorded failure
MergeResultFlipBack(acc, result) ==
  LET k == IndexOfService(acc, result.service)
  IN  IF k = 0 THEN Append(acc, result)
      ELSE IF result.success /\ ~acc[k].success THEN [acc EXCEPT ![k] = result]
      ELSE acc

\* a variant of the loop body that marks the failure and keeps the first message
MergeResultSilent(acc, result) ==
  LET k == IndexOfService(acc, result.service)
  IN  IF k = 0 THEN Append(acc, result)
      ELSE IF ~result.success /\ acc[k].success
           THEN [acc EXCEPT ![k] = [@ EXCEPT !.success = FALSE, !.error = result.error]]
           ELSE acc

\* the body of the aggregation loop, ping.mts:314-328
MergeResult(acc, result) ==
  LET k == IndexOfService(acc, result.service)
  IN  IF k = 0 THEN Append(acc, result)
      ELSE IF ~result.success /\ acc[k].success
           THEN [acc EXCEPT ![k] = [@ EXCEPT !.success = FALSE,
                                             !.message = <<"Partial", ":", "some URLs failed">>,
                                             !.error = result.error]]
           ELSE acc

RECURSIVE FoldResults(_, _)
FoldResults(flat, acc) ==
  IF flat = <<>> THEN acc ELSE FoldResults(Tail(flat), MergeResult(acc, Head(flat)))

RECURSIVE Flatten(_)
Flatten(lists) == IF lists = <<>> THEN <<>> ELSE Head(lists) \o Flatten(Tail(lists))

\* a variant of the aggregation that goes through the per-URL lists last URL first
AggregateLastFirst(perUrl) ==
  FoldResults(Flatten([k \in 1..Len(perUrl) |-> perUrl[Len(perUrl) + 1 - k]]), <<>>)

\* ping.mts:310-332: the Map's values in insertion order
Aggregate(perUrl) == FoldResults(Flatten(perUrl), <<>>)

\* a variant of the overall flag that asks every aggregated result to succeed
OverallSuccessEvery(allResults) == \A k \in 1..Len(allResults) : allResults[k].success

\* `allResults.some(r => r.success)`, ping.mts:338
OverallSuccess(allResults) == \E k \in 1..Len(allResults) : allResults[k].success

NoResponse ==
  [status |-> 0, success |-> FALSE, results |-> <<>>, totalTime |-> 0, error |-> UNDEFINED]

\* the 200 response, ping.mts:332-347
OkResponse(perUrl, totalTime) ==
  LET allResults == Aggregate(perUrl)
  IN  [status |-> 200, success |-> OverallSuccess(allResults), results |-> allResults,
       totalTime |-> totalTime, error |-> UNDEFINED]

\* the 400 response of a failed validation, ping.mts:261-266 (it has an error text only)
ValidationFailure ==
  [status |-> 400, success |-> FALSE, results |-> <<>>, totalTime |-> 0, error |-> UNDEFINED]

\* validateRequest on the number of (non-blank string) entries, ping.mts:43-49
ValidCount(count) == count > 0 /\ count <= MAX_URLS

(***************************************************************************)
(* The submitted urls array and its validation (ping.mts:25-85, types.ts)  *)
(* An entry is of kind "nonstring" (a number, null, an object), "blank" (a *)
(* string that trims to ""), "malformed" (a string URL_PATTERN does not    *)
(* match) or "url", with the hostname `new URL(url).hostname` yields: v=4  *)
(* a dotted IPv4 address of octets o, v=6 an IPv6 literal, whose hostname  *)
(* keeps its brackets, v=0 a DNS name; text holds the name's atoms.        *)
(***************************************************************************)
HostName(text) == [v |-> 0, o |-> <<>>, text |-> text]

IPv4(a, b, c, d) == [v |-> 4, o |-> <<a, b, c, d>>, text |-> <<>>]

IPv6(text) == [v |-> 6, o |-> <<>>, text |-> <<"[">> \o text \o <<"]">>]

\* an entry that `new URL` is not applied to
NoHost == HostName(<<>>)

Entry(kind, host) == [kind |-> kind, host |-> host]

UrlTo(host) == Entry("url", host)

\* BLOCKED_HOSTS, types.ts
BLOCKED_HOSTS ==
  {HostName(<<"localhost">>), IPv4(127, 0, 0, 1), IPv4(0, 0, 0, 0), HostName(<<"::1">>),
   IPv6(<<"::1">>)}

\* some pattern of PRIVATE_IP_PATTERNS matches the hostname; each is anchored at the
\* start of the hostname
MatchesPrivatePattern(host) ==
  \/ /\ host.v = 4
     /\ \/ host.o[1] = 10
        \/ host.o[1] = 172 /\ host.o[2] >= 16 /\ host.o[2] <= 31
        \/ host.o[1] = 192 /\ host.o[2] = 168
        \/ host.o[1] = 169 /\ host.o[2] = 254
  \/ /\ host.text # <<>>
     /\ Head(host.text) \in {"fc00:", "fe80:"}

\* isUrlSafe, types.ts; the scheme is http or https once URL_PATTERN matched
IsUrlSafe(host) ==
  IF host \in BLOCKED_HOSTS
  THEN [safe |-> FALSE, reason |-> <<"Localhost URLs are not allowed">>]
  ELSE IF MatchesPrivatePattern(host)
  THEN [safe |-> FALSE, reason |-> <<"Private IP addresses are not allowed">>]
  ELSE [safe |-> TRUE, reason |-> UNDEFINED]

Invalid(error) == [valid |-> FALSE, urls |-> <<>>, error |-> error]

IsKept(e) == e.kind \notin {"nonstring", "blank"}

IsMalformed(e) == e.kind = "malformed"

IsUnsafe(e) == e.kind = "url" /\ ~IsUrlSafe(e.host).safe

\* validateRequest for a body whose urls field is the array entries
ValidateRequest(entries) ==
  LET urls == SelectSeq(entries, IsKept)
      invalidUrls == SelectSeq(urls, IsMalformed)
      unsafeUrls == SelectSeq(urls, IsUnsafe)
  IN  IF ~ValidCount(Len(urls))
      THEN Invalid(IF Len(urls) = 0 THEN <<"No valid URLs provided">>
                   ELSE <<"Maximum", ToString(MAX_URLS), "URLs allowed, received",
                          ToString(Len(urls))>>)
      ELSE IF invalidUrls # <<>> THEN Invalid(<<"Invalid URL format">>)
      ELSE IF unsafeUrls # <<>>
      THEN Invalid(<<"Security", ":">> \o IsUrlSafe(unsafeUrls[1].host).reason)
      ELSE [valid |-> TRUE, urls |-> urls, error |-> UNDEFINED]

\* a variant of the elapsed time with its operands exchanged
ElapsedSwapped(t, start) == start - t

\* `Date.now() - startTime`, ping.mts:116 and 284
Elapsed(t, start) == t - start

(***************************************************************************)
(* The request (ping.mts:199-266): its method, its content-length header,  *)
(* the size of its body in bytes, and the body: kind "unparseable" (not    *)
(* JSON), "other" (JSON without an array in urls) or "urls".  throws tells *)
(* that an expression of the try block outside the inner catch, such as    *)
(* new URL(req.url), throws.                                               *)
(***************************************************************************)
Body(kind, urls) == [kind |-> kind, urls |-> urls]

Request(method, contentLength, size, body, throws) ==
  [method |-> method, contentLength |-> contentLength, size |-> size, body |-> body,
   throws |-> throws]

NoRequest == Request("none", NoHeader, 0, Body("other", <<>>), FALSE)

\* the content-length header of a request that declares its size
Declared(size) == [k |-> "int", v |-> size]

JsonPost(entries) ==
  Request("POST", Declared(SmallBody), SmallBody, Body("urls", entries), FALSE)

\* a response with an error text and no results
ErrorResponse(status, error) == [ValidationFailure EXCEPT !.status = status, !.error = error]

\* the returns of the handler before validation, ping.mts:218-257; NoResponse when the
\* handler goes on to validateRequest
EarlyReturn(r) ==
  IF r.method = "OPTIONS" THEN ErrorResponse(204, UNDEFINED)
  ELSE IF r.method # "POST" THEN ErrorResponse(405, <<"Method not allowed">>)
  ELSE IF r.contentLength.k = "int" /\ r.contentLength.v > MAX_BODY_SIZE
  THEN ErrorResponse(413, <<"Request body too large">>)
  ELSE IF r.body.kind = "unparseable" THEN ErrorResponse(400, <<"Invalid JSON body">>)
  ELSE NoResponse

\* validateRequest, ping.mts:25-85
ValidateBody(body) ==
  IF body.kind # "urls" THEN Invalid(<<"Missing required field", ":", "urls (array)">>)
  ELSE ValidateRequest(body.urls)

\* the response of the outer catch block, ping.mts:349-368
Unhandled == ErrorResponse(500, <<"An error occurred while processing your request">>)

(***************************************************************************)
(* The browser client: PingController (PingController.ts), the response    *)
(* cache of pingChecker.ts and RateLimiter (rateLimiter.ts).               *)
(*   ctl            the fields of the one PingController; a promise is a   *)
(*                  positive number, 0 is null; resolved is the set of     *)
(*                  pause promises whose resolve function was called       *)
(*   runs           the calls of start() that entered the run loop, each   *)
(*                  with its local variables and where it is suspended:    *)
(*                  "ping" awaiting safeExecute with a POST in flight,     *)
(*                  "delay" awaiting the PING_DELAY timer, "paused"        *)
(*                  awaiting the pause promise `awaiting`, "ended" after   *)
(*                  its finally block; stopped tells that stop() was       *)
(*                  called during the run, late that the run issued a ping *)
(*                  or reported after that                                 *)
(*   responseCache  pingChecker's Map, per URL (the key of a one-URL call) *)
(*   posts          how many POST /api/ping requests each run sent per URL *)
(*   clock          Date.now() of the browser                              *)
(*   limiter        a RateLimiter: its config and its limits Map           *)
(*   granted        per key, when the window of the limiter began that the *)
(*                  latest granted request belongs to, and how many        *)
(*                  requests were granted in it                            *)
(***************************************************************************)
VARIABLES ctl, runs, responseCache, posts, clock, limiter, granted

client == <<ctl, runs, responseCache, posts, clock, limiter, granted>>

RunIdx == 1..MaxRuns

ClientUrls == 1..MaxClientUrls

PingServiceIdx == 1..NumPingServices

LimiterKeys == {"a", "b"}

\* the field initialisers of PingController, PingController.ts
NewController ==
  [isPaused |-> FALSE, isStopped |-> FALSE, isRunning |-> FALSE, pausePromise |-> 0,
   pauseResolve |-> 0, abortController |-> FALSE, promises |-> 0, resolved |-> {}]

NoRun ==
  [pc |-> "none", urls |-> 0, u |-> 0, s |-> 0, total |-> 0, completed |-> 0,
   successes |-> 0, errors |-> 0, awaiting |-> 0, stopped |-> FALSE, late |-> FALSE]

NoEntry == [cached |-> FALSE, ok |-> {}, timestamp |-> 0]

NoLimit == [set |-> FALSE, count |-> 0, resetTime |-> 0]

NoWindow == [open |-> FALSE, first |-> 0, requests |-> 0, denied |-> FALSE]

\* the RateLimiter constructor
NewLimiter(maxRequests, timeWindow) ==
  [maxRequests |-> maxRequests, timeWindow |-> timeWindow,
   limits |-> [key \in LimiterKeys |-> NoLimit]]

ClientInit ==
  /\ ctl = NewController
  /\ runs = [r \in RunIdx |-> NoRun]
  /\ responseCache = [u \in ClientUrls |-> NoEntry]
  /\ posts = [r \in RunIdx |-> [u \in ClientUrls |-> 0]]
  /\ clock = 0
  /\ limiter = NewLimiter(MaxRequestsArg, MaxWindowArg)
  /\ granted = [key \in LimiterKeys |-> NoWindow]

(***************************************************************************)
(* State                                                                   *)
(*   pc             where the handler is: "idle" before the request,       *)
(*                  "await" at `await Promise.all` of a batch, "done"      *)
(*                  after it returned its response                         *)
(*   n              urls.length of the validated request                   *)
(*   now            the clock, Date.now()                                  *)
(*   startTime      the handler's startTime                                *)
(*   i              the batch loop's index, 1-based                        *)
(*   urlState       per URL: "pending", "skipped" (timeout protection of   *)
(*                  pingAllServices) or "started"                          *)
(*   dl             per URL and service, the delivery unit's locals: where *)
(*                  it is ("idle", "attempt": awaiting fetch, "backoff":   *)
(*                  awaiting delay, "body": awaiting response.text() of    *)
(*                  the answer pending, whose headers came at headersAt,   *)
(*                  "done": returned or rejected), attempt, the time       *)
(*                  the attempt started, the time the pending await ends,  *)
(*                  totalResponseTime, the value returned, and log, the    *)
(*                  history of its attempts (answer, result, branch taken, *)
(*                  the time it started at and how long it took)           *)
(*   results        per URL, the results array of pingAllServices          *)
(*   resultsPerUrl  the handler's resultsPerUrl                            *)
(*   response       the response returned, NoResponse before               *)
(*   budget         how many more answers may deviate from the nominal one *)
(*   fetches        per URL, the number of fetch calls issued for it       *)
(*   checkedAt      per URL, the clock when the head of the batch loop     *)
(*                  reached the URL's batch, -1 before                     *)
(*   env            what the run is given: services, the service records   *)
(*                  the delivery units are called with, and fastMs, the    *)
(*                  latency of an endpoint that answers in time            *)
(***************************************************************************)
VARIABLES pc, n, now, startTime, i, urlState, dl, results, resultsPerUrl, response,
          budget, fetches, checkedAt, env, request, req

server == <<pc, n, now, startTime, i, urlState, dl, results, resultsPerUrl, response,
            budget, fetches, checkedAt, env, request, req>>

vars == <<server, client>>

UrlIdx == 1..MAX_URLS

NoResult == AttemptResult(FALSE, -1, FALSE, UNDEFINED, 0, -1)

IdleDelivery ==
  [pc |-> "idle", attempt |-> 0, started |-> 0, wake |-> 0, total |-> 0,
   returned |-> NoResult, log |-> <<>>, headersAt |-> 0, pending |-> TimeoutReply]

\* `service.maxRetries ?? DEFAULT_RETRY_COUNT`, xmlrpc.ts:326, websub.ts:188
MaxRetriesOf(svc) ==
  IF "maxRetries" \in DOMAIN svc THEN svc.maxRetries ELSE DEFAULT_RETRY_COUNT

\* fetch is issued with its abort timer armed (xmlrpc.ts:227-239, websub.ts:48-60);
\* the endpoint answers promptly, or not before the timer fires
StartAttempt(d, attempt, t, slow, svc) ==
  [d EXCEPT !.pc = "attempt", !.attempt = attempt, !.started = t,
            !.wake = t + (IF slow THEN svc.timeout ELSE env.fastMs)]

\* The pending await of delivery (u, s) is the next one to end.  Awaits that end at
\* the same instant are resumed in the order the deliveries were started (URL by URL,
\* the hub first): the event loop's queue order.
IsEarliest(u, s) ==
  \A u2 \in UrlIdx, s2 \in SvcIdx :
    dl[u2][s2].pc \in {"attempt", "body", "backoff"} =>
      \/ dl[u2][s2].wake > dl[u][s].wake
      \/ dl[u2][s2].wake = dl[u][s].wake /\ (u2 > u \/ (u2 = u /\ s2 >= s))

\* a variant of the slice that takes one URL more
BatchUrlsWide(idx, count) == {u \in 1..count : u >= idx /\ u < idx + BATCH_SIZE + 1}

\* urls.slice(i, i + BATCH_SIZE), as indices
BatchUrls(idx, count) == {u \in 1..count : u >= idx /\ u < idx + BATCH_SIZE}

\* the batch loop's timeout check, ping.mts:284-288
BatchTimedOut(t, start) == Elapsed(t, start) > MAX_FUNCTION_EXECUTION_MS

\* a variant without the timeout protection
InsufficientTimeNever(t, functionStartTime) == FALSE

\* a variant of the timeout protection with its comparison turned round
InsufficientTimeInverted(t, functionStartTime) ==
  MAX_FUNCTION_EXECUTION_MS - Elapsed(t, functionStartTime) > SAFETY_MARGIN_MS

\* the timeout protection of pingAllServices, ping.mts:116-119
InsufficientTime(t, functionStartTime) ==
  MAX_FUNCTION_EXECUTION_MS - Elapsed(t, functionStartTime) < SAFETY_MARGIN_MS

\* the handler has not been called; anomalies answers may deviate from the nominal
InitState(anomalies) ==
  /\ pc = "idle"
  /\ n = 0
  /\ now = 0
  /\ startTime = 0
  /\ i = 1
  /\ urlState = [u \in UrlIdx |-> "pending"]
  /\ dl = [u \in UrlIdx |-> [s \in SvcIdx |-> IdleDelivery]]
  /\ results = [u \in UrlIdx |-> <<>>]
  /\ resultsPerUrl = <<>>
  /\ response = NoResponse
  /\ budget = anomalies
  /\ fetches = [u \in UrlIdx |-> 0]
  /\ checkedAt = [u \in UrlIdx |-> -1]
  /\ request = <<>>
  /\ req = NoRequest
  /\ ClientInit

\* the deployed configuration
InitWith(anomalies) ==
  /\ env = [services |-> Services, fastMs |-> FastMs]
  /\ InitState(anomalies)

Init == InitWith(MaxAnomalies)

(***************************************************************************)
(* One pass through the head of the batch loop (ping.mts:282-306) up to    *)
(* the next `await Promise.all`, or, when the loop ends, through the       *)
(* aggregation to the response (ping.mts:308-347).  slow is the set of     *)
(* deliveries of the batch whose endpoint will not answer in time.         *)
(***************************************************************************)
LoopStep(idx, count, perUrl, start, slow) ==
  /\ checkedAt' = [u \in UrlIdx |-> IF u \in BatchUrls(idx, count) THEN now ELSE checkedAt[u]]
  /\ IF idx > count \/ BatchTimedOut(now, start)
     THEN /\ slow = {}
          /\ pc' = "done"
          /\ response' = OkResponse(perUrl, now - start)
          /\ dl' = [u \in UrlIdx |-> [s \in SvcIdx |-> IdleDelivery]]
          /\ results' = [u \in UrlIdx |-> <<>>]
          /\ UNCHANGED <<urlState, budget, fetches, env>>
     ELSE LET batch == BatchUrls(idx, count)
              \* each pingAllServices call of the batch reads the clock before any await
              skipped == {u \in batch : InsufficientTime(now, start)}
              started == batch \ skipped
          IN  /\ slow \subseteq started \X SvcIdx
              /\ Cardinality(slow) <= budget
              /\ pc' = "await"
              /\ response' = response
              /\ urlState' = [u \in UrlIdx |->
                                IF u \in skipped THEN "skipped"
                                ELSE IF u \in started THEN "started"
                                ELSE urlState[u]]
              /\ results' = [u \in UrlIdx |-> IF u \in skipped THEN <<SystemResult>> ELSE <<>>]
              \* a delivery the loop did not wait for goes on by itself
              /\ dl' = [u \in UrlIdx |-> [s \in SvcIdx |->
                          IF u \in started
                          THEN StartAttempt(IdleDelivery, 0, now, <<u, s>> \in slow,
                                            env.services[s])
                          ELSE IF dl[u][s].pc \in {"attempt", "body", "backoff"}
                          THEN dl[u][s]
                          ELSE IdleDelivery]]
              /\ budget' = budget - Cardinality(slow)
              /\ env' = env
              /\ fetches' = [u \in UrlIdx |->
                               IF u \in started THEN Len(Services) ELSE fetches[u]]

\* the handler from its start to its first await of a batch or to the response it
\* returns before any batch, ping.mts:199-293 and 349-368; the URLs the batches work on
\* are validation.urls
Handler(r, slow) ==
  LET early == EarlyReturn(r)
      validation == ValidateBody(r.body)
      count == Len(validation.urls)
  IN  /\ pc = "idle"
      /\ req' = r
      /\ request' = IF r.body.kind = "urls" THEN r.body.urls ELSE <<>>
      /\ n' = IF early.status = 0 THEN count ELSE 0
      /\ startTime' = now
      /\ now' = now
      /\ i' = 1
      /\ resultsPerUrl' = <<>>
      /\ UNCHANGED client
      /\ IF early.status = 0 /\ validation.valid /\ ~r.throws
         THEN LoopStep(1, count, <<>>, now, slow)
         ELSE /\ slow = {}
              /\ pc' = "done"
              /\ response' =
                   IF early.status # 0 THEN early
                   ELSE IF ~validation.valid
                   THEN [ValidationFailure EXCEPT !.error = validation.error]
                   ELSE Unhandled
              /\ UNCHANGED <<urlState, dl, results, budget, fetches, checkedAt, env>>

\* the handler on a POST whose body declares its length and has the array entries as
\* its urls field
ReceiveUrls(entries, slow) == Handler(JsonPost(entries), slow)

\* a well-formed URL of a public site
PlainUrl == UrlTo(HostName(<<"example", ".", "com">>))

PlainUrls(count) == [k \in 1..count |-> PlainUrl]

\* the handler on a request of count well-formed public URLs
Receive(count, slow) == ReceiveUrls(PlainUrls(count), slow)

\* The retry loop from the end of an attempt to its next await or to its return
\* (websub.ts:201-236, xmlrpc.ts:338-373).  The attempt measured responseTime when the
\* headers arrived (websub.ts:64, xmlrpc.ts:243) or in its catch block (websub.ts:133,
\* xmlrpc.ts:273).  An attempt that throws makes the loop's own promise reject.
AfterAttempt(d, svc, reply, headersAt, endedAt) ==
  LET responseTime == (IF Throws(svc.method, reply) THEN endedAt ELSE headersAt) - d.started
      result == AttemptOf(svc, reply, responseTime, headersAt)
      total == d.total + responseTime
      branch == IF result.rejected THEN "rejected"
                ELSE IF result.success THEN "success"
                ELSE IF ~IsRetryableError(svc, result) THEN "terminal"
                ELSE IF RetriesRemain(d.attempt, MaxRetriesOf(svc)) THEN "retry"
                ELSE "exhausted"
      log == Append(d.log, [reply |-> reply, result |-> result, branch |-> branch,
                            at |-> d.started, took |-> endedAt - d.started])
      returned == IF branch = "rejected" THEN result
                  ELSE IF branch = "success" THEN ReturnOnSuccess(result, total)
                  ELSE IF branch = "terminal" THEN ReturnOnTerminal(result, total)
                  ELSE ReturnExhausted(result, total, MaxRetriesOf(svc))
  IN  IF branch = "retry"
      THEN [d EXCEPT !.pc = "backoff", !.wake = endedAt + BackoffDelay(d.attempt + 1),
                     !.total = total, !.log = log]
      ELSE [d EXCEPT !.pc = "done", !.total = total, !.log = log, !.returned = returned]

\* the results array of pingAllServices once delivery s of URL u is in state d1:
\* its .then or .catch callback has run if the delivery has returned
Pushed(u, s, d1) ==
  IF d1.pc = "done"
  THEN [results EXCEPT ![u] = Append(@, ToPingResult(env.services[s], d1.returned))]
  ELSE results

\* an attempt's fetch settles; unless the attempt goes on to read a body that is not
\* there yet, the retry loop runs to its next await or to its return
AttemptCompletes(u, s, reply, nominal) ==
  LET d == dl[u][s]
      svc == env.services[s]
      slow == d.wake - d.started >= svc.timeout
      cost == IF slow \/ reply = nominal THEN 0 ELSE 1
      d1 == IF ReadsBody(svc.method, reply) /\ reply.bodyMs > 0
            THEN [d EXCEPT !.pc = "body", !.headersAt = d.wake, !.pending = reply,
                           !.wake = d.wake + reply.bodyMs]
            ELSE AfterAttempt(d, svc, reply, d.wake, d.wake)
  IN  /\ pc = "await"
      /\ d.pc = "attempt"
      /\ IsEarliest(u, s)
      /\ (reply.kind = "timeout") <=> slow
      /\ cost <= budget
      /\ budget' = budget - cost
      /\ now' = d.wake
      /\ dl' = [dl EXCEPT ![u][s] = d1]
      /\ results' = Pushed(u, s, d1)
      /\ UNCHANGED <<pc, n, startTime, i, urlState, resultsPerUrl, response, fetches,
                      checkedAt, env, request, req, client>>

\* response.text() settles (xmlrpc.ts:257, websub.ts:113) and the retry loop runs on
BodyEnds(u, s) ==
  LET d == dl[u][s]
      d1 == AfterAttempt(d, env.services[s], d.pending, d.headersAt, d.wake)
  IN  /\ pc = "await"
      /\ d.pc = "body"
      /\ IsEarliest(u, s)
      /\ now' = d.wake
      /\ dl' = [dl EXCEPT ![u][s] = d1]
      /\ results' = Pushed(u, s, d1)
      /\ UNCHANGED <<pc, n, startTime, i, urlState, resultsPerUrl, response, budget,
                      fetches, checkedAt, env, request, req, client>>

\* the backoff delay ends and the next attempt's fetch is issued
\* (websub.ts:195-201, xmlrpc.ts:332-338)
BackoffEnds(u, s, slow) ==
  LET d == dl[u][s]
      cost == IF slow THEN 1 ELSE 0
  IN  /\ pc = "await"
      /\ d.pc = "backoff"
      /\ IsEarliest(u, s)
      /\ cost <= budget
      /\ budget' = budget - cost
      /\ now' = d.wake
      /\ dl' = [dl EXCEPT ![u][s] =
                    StartAttempt(d, d.attempt + 1, d.wake, slow, env.services[s])]
      /\ fetches' = [fetches EXCEPT ![u] = @ + 1]
      /\ UNCHANGED <<pc, n, startTime, i, urlState, results, resultsPerUrl, response,
                      checkedAt, env, request, req, client>>

\* a variant that gives up waiting once the budget is spent
BatchDoneOrExpired ==
  \/ BatchTimedOut(now, startTime)
  \/ \A u \in BatchUrls(i, n) :
       urlState[u] = "skipped" \/ \A s \in SvcIdx : dl[u][s].pc = "done"

\* a variant that does not wait for a delivery that is between two attempts
BatchDoneNoRetries ==
  \A u \in BatchUrls(i, n) :
    urlState[u] = "skipped" \/ \A s \in SvcIdx : dl[u][s].pc \in {"done", "backoff"}

\* a variant that does not wait for every delivery: one per URL is enough
BatchDoneAny ==
  \A u \in BatchUrls(i, n) :
    urlState[u] = "skipped" \/ \E s \in SvcIdx : dl[u][s].pc = "done"

\* every pingAllServices call of the batch has returned
BatchDone ==
  \A u \in BatchUrls(i, n) :
    urlState[u] = "skipped" \/ \A s \in SvcIdx : dl[u][s].pc = "done"

\* Promise.all of the batch resolves: its results are collected and the loop goes on
\* (ping.mts:293-306, then 282-293 or 308-347)
BatchSettled(slow) ==
  LET batch == BatchUrls(i, n)
      batchResults == [k \in 1..Cardinality(batch) |->
                         WithUrlContext(results[i + k - 1], i + k - 1)]
      perUrl == resultsPerUrl \o batchResults
  IN  /\ pc = "await"
      /\ BatchDone
      /\ resultsPerUrl' = perUrl
      /\ i' = i + BATCH_SIZE
      /\ LoopStep(i + BATCH_SIZE, n, perUrl, startTime, slow)
      /\ UNCHANGED <<n, now, startTime, request, req, client>>

(***************************************************************************)
(* The answers the endpoints give                                          *)
(***************************************************************************)
Nominal(svc) == IF svc.method = "websub" THEN HubAccepted ELSE XmlRpcThanks

FlerrorXml ==
  [flerror |-> "1", message |-> <<"Too many pings">>, fault |-> FALSE, faultString |-> UNDEFINED]

\* prompt success, a prompt terminal failure, or no answer in time
BasicReplies(svc) ==
  IF svc.method = "websub"
  THEN {HubAccepted, HttpReply(404, <<"Not Found">>, <<>>, NoHeader, NoXml), TimeoutReply}
  ELSE {XmlRpcThanks, HttpReply(200, <<"OK">>, <<>>, NoHeader, FlerrorXml), TimeoutReply}

SlowSets(idx) == SUBSET (BatchUrls(idx, MAX_URLS) \X SvcIdx)

ReceiveRequest ==
  \E count \in 0..(MAX_URLS + 1), slow \in SlowSets(1) : Receive(count, slow)

AttemptEnds ==
  \E u \in UrlIdx, s \in SvcIdx :
    \E reply \in BasicReplies(Services[s]) : AttemptCompletes(u, s, reply, Nominal(Services[s]))

RetryStarts ==
  \E u \in UrlIdx, s \in SvcIdx, slow \in BOOLEAN : BackoffEnds(u, s, slow)

BatchEnds ==
  \E slow \in SlowSets(i + BATCH_SIZE) : BatchSettled(slow)

Next == ReceiveRequest \/ AttemptEnds \/ RetryStarts \/ BatchEnds

Spec == Init /\ [][Next]_vars

(***************************************************************************)
(* One URL, and the answers that tell the codecs' cases apart              *)
(***************************************************************************)
RetryAfterHeaders ==
  {NoHeader, [k |-> "int", v |-> RetryAfterInt], [k |-> "date", v |-> RetryAfterDate],
   [k |-> "unparsed", v |-> 0]}

ErrorBodies == {<<>>, <<"upstream", "timed out">>}

XmlBodies ==
  {ThanksXml,
   FlerrorXml,
   NoXml,
   [flerror |-> "1", message |-> <<"Gateway", "timed out">>, fault |-> FALSE,
    faultString |-> UNDEFINED],
   [flerror |-> "absent", message |-> UNDEFINED, fault |-> TRUE,
    faultString |-> <<"Service", "temporarily unavailable">>],
   [flerror |-> "0", message |-> <<"Thanks for the ping!">>, fault |-> TRUE,
    faultString |-> UNDEFINED]}

\* a body that arrives late, one whose stream breaks late, one that breaks at once
BodyFates == {<<SlowBodyMs, FALSE>>, <<SlowBodyMs, TRUE>>, <<0, TRUE>>}

RichReplies(svc) ==
  IF svc.method = "websub"
  THEN {HubAccepted, HttpReply(202, <<"Accepted">>, <<>>, NoHeader, NoXml), NetErrReply,
        TimeoutReply}
       \cup {HttpReply(429, <<"Too Many Requests">>, <<>>, h, NoXml) : h \in RetryAfterHeaders}
       \cup {HttpReply(503, <<"Service Unavailable">>, <<>>, h, NoXml) : h \in RetryAfterHeaders}
       \cup {HttpReply(404, <<"Not Found">>, b, NoHeader, NoXml) : b \in ErrorBodies}
       \cup {HttpReply(500, <<"Internal Server Error">>, b, NoHeader, NoXml) : b \in ErrorBodies}
       \cup {WithBody(HttpReply(404, <<"Not Found">>, <<"unknown topic">>, NoHeader, NoXml),
                      b[1], b[2]) : b \in BodyFates}
  ELSE {HttpReply(404, <<"Not Found">>, <<>>, NoHeader, NoXml),
        HttpReply(500, <<"Internal Server Error">>, <<>>, NoHeader, NoXml),
        NetErrReply, TimeoutReply}
       \cup {HttpReply(200, <<"OK">>, <<>>, NoHeader, x) : x \in XmlBodies}
       \cup {WithBody(XmlRpcThanks, b[1], b[2]) : b \in BodyFates}

InitUnit == InitWith(MaxUnitAnomalies)

ReceiveOne == \E slow \in SlowSets(1) : Receive(1, slow)

AttemptEndsRich ==
  \E u \in UrlIdx, s \in SvcIdx :
    \E reply \in RichReplies(Services[s]) : AttemptCompletes(u, s, reply, Nominal(Services[s]))

BodyRead == \E u \in UrlIdx, s \in SvcIdx : BodyEnds(u, s)

NextUnit == ReceiveOne \/ AttemptEndsRich \/ BodyRead \/ RetryStarts \/ BatchEnds

SpecUnit == InitUnit /\ [][NextUnit]_vars

(***************************************************************************)
(* The delivery units by themselves: notifyHub takes maxRetries as an      *)
(* argument and sendXmlRpcPing takes it from the service record it is      *)
(* given, so they are run here with each retry count up to MaxRetriesArg,  *)
(* against endpoints near and far.                                         *)
(***************************************************************************)
WithMaxRetries(m) == [s \in SvcIdx |-> [Services[s] EXCEPT !.maxRetries = m]]

InitDelivery ==
  /\ InitState(MaxUnitAnomalies)
  /\ env \in {[services |-> WithMaxRetries(m), fastMs |-> f] :
                m \in 0..MaxRetriesArg, f \in {QuickMs, FastMs}}

SpecDelivery == InitDelivery /\ [][NextUnit]_vars

(***************************************************************************)
(* The handler on urls arrays of up to MaxItems entries, of which at most  *)
(* one is not a well-formed public URL: an entry that is not a string, a   *)
(* blank or malformed string, or a URL to an address on or off the lists   *)
(* of types.ts.                                                            *)
(***************************************************************************)
Hosts ==
  {HostName(<<"localhost">>), IPv4(127, 0, 0, 1), IPv4(127, 0, 0, 2), IPv4(10, 0, 0, 5),
   IPv4(172, 16, 0, 1), IPv4(172, 32, 0, 1), IPv4(192, 168, 1, 1), IPv4(169, 254, 1, 1),
   IPv6(<<"::1">>), IPv6(<<"fe80:", ":1">>), IPv6(<<"fc00:", ":1">>)}

OddEntries ==
  {Entry("nonstring", NoHost), Entry("blank", NoHost), Entry("malformed", NoHost)}
    \cup {UrlTo(h) : h \in Hosts}

UrlArrays ==
  {PlainUrls(len) : len \in 0..MaxItems}
    \cup UNION {{[PlainUrls(len) EXCEPT ![k] = e] : k \in 1..len, e \in OddEntries} :
                 len \in 1..MaxItems}

ReceiveArray ==
  \E entries \in UrlArrays, slow \in SlowSets(1) : ReceiveUrls(entries, slow)

NextValidate == ReceiveArray \/ AttemptEnds \/ RetryStarts \/ BatchEnds

InitValidate == InitWith(1)

SpecValidate == InitValidate /\ [][NextValidate]_vars

(***************************************************************************)
(* The handler on requests of every method, with bodies at and around      *)
(* MAX_BODY_SIZE whose size the content-length header declares or not      *)
(***************************************************************************)
Methods == {"OPTIONS", "GET", "POST"}

BodySizes == {SmallBody, MAX_BODY_SIZE, MAX_BODY_SIZE + 1}

Bodies ==
  {Body("unparseable", <<>>), Body("other", <<>>)}
    \cup {Body("urls", PlainUrls(count)) : count \in {0, 1, BATCH_SIZE, MAX_URLS + 1}}

Requests ==
  {Request(method, contentLength, size, body, throws) :
     method \in Methods, size \in BodySizes, body \in Bodies, throws \in BOOLEAN,
     contentLength \in {NoHeader} \cup {Declared(sz) : sz \in BodySizes}}

ReceiveAny ==
  \E r \in Requests, slow \in SlowSets(1) :
    /\ r.contentLength.k = "int" => r.contentLength.v = r.size
    /\ Handler(r, slow)

NextHandler == ReceiveAny \/ AttemptEnds \/ RetryStarts \/ BatchEnds

InitHandler == InitWith(MaxAnomalies)

SpecHandler == InitHandler /\ [][NextHandler]_vars

(***************************************************************************)
(* PingController (PingController.ts) with pingService and the response    *)
(* cache (pingChecker.ts).  JavaScript runs one task at a time, so a run   *)
(* loop goes on without interleaving from an await that suspends it to the *)
(* next one: the operators below take the client state st = (ctl, runs,    *)
(* cache, posts) through such a stretch for run r.  The abortController is *)
(* made and aborted but its signal is not passed to pingService, so it     *)
(* ends no request; activeRequests only delays the settling of stop() and  *)
(* start() until the requests in flight have settled.                      *)
(***************************************************************************)
ClientState(c, rs, cache, p) == [ctl |-> c, runs |-> rs, cache |-> cache, posts |-> p]

Current == ClientState(ctl, runs, responseCache, posts)

\* reset(), PingController.ts; the pause promise is dropped, not resolved
ResetController(c) ==
  [c EXCEPT !.isPaused = FALSE, !.isStopped = FALSE, !.isRunning = FALSE,
            !.pausePromise = 0, !.pauseResolve = 0, !.abortController = FALSE]

\* resume(), PingController.ts
ResumeController(c) ==
  IF c.isPaused /\ c.pauseResolve # 0
  THEN [c EXCEPT !.isPaused = FALSE, !.resolved = @ \cup {c.pauseResolve},
                 !.pausePromise = 0, !.pauseResolve = 0]
  ELSE c

\* the finally block of start()
Finish(st, r) ==
  [st EXCEPT !.ctl.isRunning = FALSE, !.ctl.abortController = FALSE, !.runs[r].pc = "ended"]

\* run r calls onProgress or onResults, or issues a ping
Acts(st, r) == [st EXCEPT !.runs[r].late = @ \/ st.runs[r].stopped]

\* clearExpiredCache, pingChecker.ts
ClearExpiredCache(cache) ==
  [u \in ClientUrls |->
     IF cache[u].cached /\ clock - cache[u].timestamp > CACHE_TTL THEN NoEntry ELSE cache[u]]

\* `cached && Date.now() - cached.timestamp < CACHE_TTL`, pingChecker.ts
CacheHit(cache, u) == cache[u].cached /\ clock - cache[u].timestamp < CACHE_TTL

RECURSIVE Begin(_, _, _, _), Issue(_, _, _, _), Record(_, _, _, _, _)
\* the heads of the two loops for URL u and service s, up to waitIfPaused
Begin(st, r, u, s) ==
  IF u > st.runs[r].urls \/ st.ctl.isStopped THEN Finish(st, r)
  ELSE IF st.ctl.isPaused /\ st.ctl.pausePromise # 0
  THEN [st EXCEPT !.runs[r].pc = "paused", !.runs[r].u = u, !.runs[r].s = s,
                  !.runs[r].awaiting = st.ctl.pausePromise]
  ELSE Issue(st, r, u, s)

\* after waitIfPaused: the progress report and pingService(service, url), which
\* answers from the cache or sends POST /api/ping
Issue(st, r, u, s) ==
  IF st.ctl.isStopped THEN Finish(st, r)
  ELSE LET at == Acts([st EXCEPT !.runs[r].u = u, !.runs[r].s = s, !.runs[r].awaiting = 0], r)
           swept == [at EXCEPT !.cache = ClearExpiredCache(@)]
       IN  IF CacheHit(swept.cache, u)
           THEN Record(swept, r, u, s, s \in swept.cache[u].ok)
           ELSE [swept EXCEPT !.runs[r].pc = "ping", !.posts[r][u] = @ + 1]

\* after `await this.safeExecute(...)`: the result is counted and reported unless
\* isStopped, then the PING_DELAY timer or the next URL
Record(st, r, u, s, success) ==
  IF st.ctl.isStopped THEN Begin(st, r, u, s + 1)
  ELSE LET counted ==
             Acts([st EXCEPT !.runs[r].completed = @ + 1,
                             !.runs[r].successes = IF success THEN @ + 1 ELSE @,
                             !.runs[r].errors = IF success THEN @ ELSE @ + 1], r)
       IN  IF s < NumPingServices THEN [counted EXCEPT !.runs[r].pc = "delay"]
           ELSE Begin(counted, r, u + 1, 1)

Apply(st) ==
  /\ ctl' = st.ctl
  /\ runs' = st.runs
  /\ responseCache' = st.cache
  /\ posts' = st.posts

\* start(urls) for count URLs, when it does not throw, up to its first ping in flight
start(count) ==
  /\ ~ctl.isRunning
  /\ \E r \in RunIdx :
       /\ runs[r].pc = "none" /\ \A q \in 1..(r - 1) : runs[q].pc # "none"
       /\ LET c == [ResetController(ctl) EXCEPT !.isRunning = TRUE, !.abortController = TRUE]
              fresh == [NoRun EXCEPT !.urls = count, !.total = count * NumPingServices]
          IN  Apply(Begin(ClientState(c, [runs EXCEPT ![r] = fresh], responseCache, posts),
                          r, 1, 1))
  /\ UNCHANGED <<server, clock, limiter, granted>>

pause ==
  /\ ~ctl.isPaused /\ ctl.isRunning
  /\ ctl.promises < MaxPauses
  /\ ctl' = [ctl EXCEPT !.isPaused = TRUE, !.pausePromise = ctl.promises + 1,
                        !.pauseResolve = ctl.promises + 1, !.promises = @ + 1]
  /\ UNCHANGED <<server, runs, responseCache, posts, clock, limiter, granted>>

resume ==
  /\ ctl' = ResumeController(ctl)
  /\ UNCHANGED <<server, runs, responseCache, posts, clock, limiter, granted>>

\* stop(), up to its await
stop ==
  /\ ctl' = LET c == [ctl EXCEPT !.isStopped = TRUE, !.isRunning = FALSE]
            IN  IF c.isPaused THEN ResumeController(c) ELSE c
  /\ runs' = [r \in RunIdx |->
                IF runs[r].pc \in {"ping", "delay", "paused"}
                THEN [runs[r] EXCEPT !.stopped = TRUE] ELSE runs[r]]
  /\ UNCHANGED <<server, responseCache, posts, clock, limiter, granted>>

reset ==
  /\ ctl' = ResetController(ctl)
  /\ UNCHANGED <<server, runs, responseCache, posts, clock, limiter, granted>>

\* the POST /api/ping of run r is answered: with a response that is cached, ok being
\* the services it reports a success for, or with an error, a timeout or no connection
PostReturns(r, okResponse, ok) ==
  /\ runs[r].pc = "ping"
  /\ LET u == runs[r].u
         s == runs[r].s
         st == IF okResponse
               THEN [Current EXCEPT !.cache[u] =
                                      [cached |-> TRUE, ok |-> ok, timestamp |-> clock]]
               ELSE Current
     IN  Apply(Record(st, r, u, s, okResponse /\ s \in ok))
  /\ UNCHANGED <<server, clock, limiter, granted>>

\* the PING_DELAY timer of run r fires
DelayEnds(r) ==
  /\ runs[r].pc = "delay"
  /\ Apply(Begin(Current, r, runs[r].u, runs[r].s + 1))
  /\ UNCHANGED <<server, clock, limiter, granted>>

\* run r goes on after `await this.pausePromise`
PauseReleased(r) ==
  /\ runs[r].pc = "paused"
  /\ runs[r].awaiting \in ctl.resolved
  /\ Apply(Issue(Current, r, runs[r].u, runs[r].s))
  /\ UNCHANGED <<server, clock, limiter, granted>>

\* more than CACHE_TTL passes; no timer and no request is pending meanwhile
Elapse ==
  /\ clock < MaxElapses * LongPause
  /\ \A r \in RunIdx :
       /\ runs[r].pc \notin {"ping", "delay"}
       /\ runs[r].pc = "paused" => runs[r].awaiting \notin ctl.resolved
  /\ clock' = clock + LongPause
  /\ UNCHANGED <<server, ctl, runs, responseCache, posts, limiter, granted>>

Starts == \E count \in ClientUrls : start(count)

PostEnds ==
  \E r \in RunIdx, okResponse \in BOOLEAN,
     ok \in {PingServiceIdx} : PostReturns(r, okResponse, ok)

TimerFires == \E r \in RunIdx : DelayEnds(r)

RunResumes == \E r \in RunIdx : PauseReleased(r)

NextClient ==
  Starts \/ pause \/ resume \/ stop \/ reset \/ PostEnds \/ TimerFires \/ RunResumes
    \/ Elapse

InitClient == InitWith(0)

SpecClient == InitClient /\ [][NextClient]_vars

(***************************************************************************)
(* RateLimiter (rateLimiter.ts), constructed with each maxRequests up to   *)
(* MaxRequestsArg and each timeWindow up to MaxWindowArg                   *)
(***************************************************************************)
\* a variant of canMakeRequest that refuses once the count is above maxRequests
CanMakeRequestAbove(l, key) ==
  LET state == l.limits[key]
  IN  IF ~state.set \/ clock >= state.resetTime
      THEN [granted |-> TRUE,
            limiter |-> [l EXCEPT !.limits[key] =
                           [set |-> TRUE, count |-> 1, resetTime |-> clock + l.timeWindow]]]
      ELSE IF state.count > l.maxRequests THEN [granted |-> FALSE, limiter |-> l]
      ELSE [granted |-> TRUE, limiter |-> [l EXCEPT !.limits[key].count = @ + 1]]

\* canMakeRequest: what it returns and the limiter it leaves
CanMakeRequest(l, key) ==
  LET state == l.limits[key]
  IN  IF ~state.set \/ clock >= state.resetTime
      THEN [granted |-> TRUE,
            limiter |-> [l EXCEPT !.limits[key] =
                           [set |-> TRUE, count |-> 1, resetTime |-> clock + l.timeWindow]]]
      ELSE IF state.count >= l.maxRequests THEN [granted |-> FALSE, limiter |-> l]
      ELSE [granted |-> TRUE, limiter |-> [l EXCEPT !.limits[key].count = @ + 1]]

\* getRemainingRequests
GetRemainingRequests(l, key) ==
  LET state == l.limits[key]
  IN  IF ~state.set \/ clock >= state.resetTime THEN l.maxRequests
      ELSE Max(0, l.maxRequests - state.count)

\* the window of the key is running at the instant t
WindowRuns(w, t) == w.open /\ t < w.first + limiter.timeWindow

\* new RateLimiter(config)
Construct(maxRequests, timeWindow) ==
  /\ limiter' = NewLimiter(maxRequests, timeWindow)
  /\ granted' = [key \in LimiterKeys |-> NoWindow]
  /\ UNCHANGED <<server, ctl, runs, responseCache, posts, clock>>

canMakeRequest(key) ==
  LET answer == CanMakeRequest(limiter, key)
      w == granted[key]
  IN  /\ limiter' = answer.limiter
      /\ granted' =
           [granted EXCEPT ![key] =
              IF ~answer.granted THEN [w EXCEPT !.denied = TRUE]
              ELSE IF WindowRuns(w, clock) THEN [w EXCEPT !.requests = @ + 1]
              ELSE [open |-> TRUE, first |-> clock, requests |-> 1, denied |-> FALSE]]
      /\ UNCHANGED <<server, ctl, runs, responseCache, posts, clock>>

\* reset(key)
resetKey(key) ==
  /\ limiter' = [limiter EXCEPT !.limits[key] = NoLimit]
  /\ granted' = [granted EXCEPT ![key] = NoWindow]
  /\ UNCHANGED <<server, ctl, runs, responseCache, posts, clock>>

resetAll ==
  /\ limiter' = [limiter EXCEPT !.limits = [key \in LimiterKeys |-> NoLimit]]
  /\ granted' = [key \in LimiterKeys |-> NoWindow]
  /\ UNCHANGED <<server, ctl, runs, responseCache, posts, clock>>

\* a millisecond passes
Tick ==
  /\ clock < MaxLimiterClock
  /\ clock' = clock + 1
  /\ UNCHANGED <<server, ctl, runs, responseCache, posts, limiter, granted>>

Constructs ==
  \E maxRequests \in 1..MaxRequestsArg, timeWindow \in 1..MaxWindowArg :
    Construct(maxRequests, timeWindow)

AsksLimiter == \E key \in LimiterKeys : canMakeRequest(key)

ResetsKey == \E key \in LimiterKeys : resetKey(key)

NextLimiter == Constructs \/ AsksLimiter \/ ResetsKey \/ resetAll \/ Tick

InitLimiter == InitWith(0)

SpecLimiter == InitLimiter /\ [][NextLimiter]_vars

(***************************************************************************)
(* Properties                                                              *)
(***************************************************************************)
Deliveries == UrlIdx \X SvcIdx

LogOf(d) == dl[d[1]][d[2]].log

\* the failure is a timeout, a network error or an HTTP 5xx response
TransientFailure(reply) ==
  \/ reply.kind \in {"timeout", "neterr"}
  \/ reply.kind = "http" /\ reply.status >= 500 /\ reply.status <= 599

\* C1: in both delivery units a failed attempt is treated as retryable if and only if
\* it is a timeout, a network error or an HTTP 5xx response; a 4xx response and a
\* response parsed as fault/flerror are terminal whatever their text is.
C1_RetryableIffTransient ==
  \A d \in Deliveries : \A k \in 1..Len(LogOf(d)) :
    LET e == LogOf(d)[k]
    IN  ~e.result.success =>
          ((e.branch \in {"retry", "exhausted"}) <=> TransientFailure(e.reply))

\* C2: when a WebSub attempt is answered with 429 or 503, notifyHub makes no further
\* attempt: it returns that attempt's failure, which carries the retryAfter hint.
C2_RateLimitedNotRetried ==
  \A u \in UrlIdx : \A k \in 1..Len(dl[u][1].log) :
    LET d == dl[u][1]
        e == d.log[k]
    IN  (e.reply.kind = "http" /\ e.reply.status \in {429, 503}) =>
          /\ d.pc = "done"
          /\ k = Len(d.log)
          /\ ~d.returned.success
          /\ d.returned.retryAfter = RetrySeconds(e.reply.retryAfter, now)

(***************************************************************************)
(* The outcomes of the request, read from resultsPerUrl: the u-th list is  *)
(* what pingAllServices returned for the u-th URL.                         *)
(***************************************************************************)
ServiceNames == {Services[s].name : s \in SvcIdx}

Answered == response.status = 200 /\ pc = "done"

Aggregated == 1..Len(response.results)

HasOutcome(u, service) ==
  /\ u <= Len(resultsPerUrl)
  /\ \E k \in 1..Len(resultsPerUrl[u]) : resultsPerUrl[u][k].service = service

DeliveredOk(u, service) ==
  /\ u <= Len(resultsPerUrl)
  /\ \E k \in 1..Len(resultsPerUrl[u]) :
       resultsPerUrl[u][k].service = service /\ resultsPerUrl[u][k].success

FailedFor(u, service) ==
  /\ u <= Len(resultsPerUrl)
  /\ \E k \in 1..Len(resultsPerUrl[u]) :
       resultsPerUrl[u][k].service = service /\ ~resultsPerUrl[u][k].success

\* C3 as stated: an aggregated result is a success only if the delivery to its
\* service succeeded for every URL of the request.
C3_SuccessOnlyIfEveryUrl ==
  Answered =>
    \A k \in Aggregated :
      response.results[k].success =>
        \A u \in 1..n : DeliveredOk(u, response.results[k].service)

\* C3 amended: an aggregated result is a success only if the delivery to its service
\* succeeded for every URL whose deliveries were started; a failure of any URL keeps
\* the aggregate failed whatever later URLs bring.
C3_SuccessOnlyIfEveryStartedUrl ==
  Answered =>
    \A k \in Aggregated :
      response.results[k].success =>
        \A u \in 1..n :
          urlState[u] = "started" => DeliveredOk(u, response.results[k].service)

\* a request of which one service succeeded for two URLs and another failed for the
\* first URL and succeeded for the second
C3_Witness ==
  /\ Answered
  /\ \E k \in Aggregated :
       /\ response.results[k].success
       /\ DeliveredOk(1, response.results[k].service)
       /\ DeliveredOk(2, response.results[k].service)
  /\ \E k \in Aggregated :
       /\ ~response.results[k].success
       /\ FailedFor(1, response.results[k].service)
       /\ DeliveredOk(2, response.results[k].service)

\* C4 as stated: an aggregated result is a success if and only if at least one URL's
\* delivery to its service succeeded.
C4_SuccessIffSomeUrl ==
  Answered =>
    \A k \in Aggregated :
      response.results[k].success <=>
        \E u \in 1..n : DeliveredOk(u, response.results[k].service)

\* C4 amended: an aggregated result is a success if and only if every outcome
\* recorded for its service is a success.
C4_SuccessIffEveryOutcome ==
  Answered =>
    \A k \in Aggregated :
      response.results[k].success <=>
        \A u \in 1..n : ~FailedFor(u, response.results[k].service)

\* a service that succeeded for one URL and failed for another is reported failed
C4_Witness ==
  /\ Answered
  /\ \E k \in Aggregated : \E u1, u2 \in 1..n :
       /\ ~response.results[k].success
       /\ DeliveredOk(u1, response.results[k].service)
       /\ FailedFor(u2, response.results[k].service)

\* C5 as stated: the overall flag is true if and only if at least one delivery
\* succeeded, for any service and any URL.
C5_OverallIffAnyDelivery ==
  Answered =>
    (response.success <=> \E u \in 1..n, service \in ServiceNames : DeliveredOk(u, service))

\* C5 amended: the overall flag is true if and only if, for at least one service,
\* every delivery made to it succeeded (its aggregated result is a success).
C5_OverallIffSomeServiceClean ==
  Answered =>
    (response.success <=>
       \E service \in ServiceNames :
         /\ \E u \in 1..n : HasOutcome(u, service)
         /\ \A u \in 1..n : ~FailedFor(u, service))

\* the flag is true although another service is reported failed
C5_Witness ==
  /\ Answered
  /\ response.success
  /\ \E k \in Aggregated :
       /\ ~response.results[k].success
       /\ response.results[k].service \in ServiceNames

RECURSIVE SumResponseTimes(_)
SumResponseTimes(log) ==
  IF log = <<>> THEN 0 ELSE Head(log).result.responseTime + SumResponseTimes(Tail(log))

\* C6: a delivery that succeeds after failed attempts returns a responseTime equal
\* to the sum of the response times of all its attempts.
C6_SuccessTimeIsCumulative ==
  \A d \in Deliveries :
    LET x == dl[d[1]][d[2]]
    IN  (x.pc = "done" /\ x.returned.success /\ Len(x.log) >= 2) =>
          x.returned.responseTime = SumResponseTimes(x.log)

\* C7: an HTTP 2xx answer whose body has no flerror member, no message member and no
\* fault block is never turned into a successful attempt of an XML-RPC delivery.
C7_UnrecognizedBodyFails ==
  \A d \in Deliveries : \A k \in 1..Len(LogOf(d)) :
    LET e == LogOf(d)[k]
    IN  (/\ Services[d[2]].method = "xmlrpc"
         /\ e.reply.kind = "http"
         /\ e.reply.status >= 200 /\ e.reply.status < 300
         /\ e.reply.xml = NoXml) => ~e.result.success

\* the batch loop was left by its timeout check
LoopBroke == Answered /\ i <= n

\* C8: whenever work was skipped for timeout protection, by pingAllServices or by the
\* batch loop, the response holds a synthetic skip outcome with success=false.
C8_SkipLeavesOutcome ==
  (Answered /\ (LoopBroke \/ \E u \in 1..n : urlState[u] = "skipped")) =>
    \E k \in Aggregated :
      response.results[k].service = "System" /\ ~response.results[k].success

\* C9: if the elapsed time at the start of a batch exceeds MAX_FUNCTION_EXECUTION_MS,
\* no network call is issued for that batch or for any later one.
C9_NoCallAfterBudget ==
  \A u \in UrlIdx :
    (checkedAt[u] # -1 /\ checkedAt[u] - startTime > MAX_FUNCTION_EXECUTION_MS) =>
      \A v \in UrlIdx : v >= u => fetches[v] = 0

\* the loop reached a batch after the budget, having made calls for the earlier ones
C9_Witness ==
  /\ pc = "done"
  /\ \E u \in UrlIdx :
       /\ checkedAt[u] # -1
       /\ checkedAt[u] - startTime > MAX_FUNCTION_EXECUTION_MS
       /\ fetches[u] = 0
       /\ \E v \in UrlIdx : v < u /\ fetches[v] > 0

\* C10: the handler returns its response within MAX_FUNCTION_EXECUTION_MS of its start.
C10_RespondsWithinBudget ==
  Answered => response.totalTime <= MAX_FUNCTION_EXECUTION_MS

(***************************************************************************)
(* The delivery units                                                      *)
(***************************************************************************)
Unit(d) == dl[d[1]][d[2]]

ServiceOf(d) == env.services[d[2]]

\* C11: every attempt ends with an outcome no later than the service's timeout after
\* it started, whatever the endpoint does with its headers and its body.
C11_AttemptWithinTimeout ==
  \A d \in Deliveries : \A k \in 1..Len(LogOf(d)) :
    LogOf(d)[k].took <= ServiceOf(d).timeout

\* C12: a delivery makes at least one and at most maxRetries+1 attempts and then
\* returns; it never starts an attempt beyond the configured retry count.
C12_AttemptsBounded ==
  \A d \in Deliveries :
    LET x == Unit(d)
        m == MaxRetriesOf(ServiceOf(d))
    IN  /\ Len(x.log) <= m + 1
        /\ x.pc \in {"attempt", "body", "backoff"} => x.attempt <= m
        /\ x.pc = "done" => Len(x.log) >= 1 /\ Len(x.log) = x.attempt + 1

\* a delivery that used every attempt it was allowed, more than one
C12_Witness ==
  \E d \in Deliveries :
    /\ Unit(d).pc = "done"
    /\ MaxRetriesOf(ServiceOf(d)) >= 1
    /\ Len(LogOf(d)) = MaxRetriesOf(ServiceOf(d)) + 1

\* C13: a timeout, network error or 5xx failure of an attempt that is not the last
\* allowed one is followed by another attempt, and an attempt that succeeds ends the
\* delivery with a success outcome: failures at attempts 1..k-1 and success at attempt
\* k <= maxRetries+1 give success after exactly k attempts.
C13_SuccessAfterRetries ==
  \A d \in Deliveries : \A k \in 1..Len(LogOf(d)) :
    LET x == Unit(d)
        e == x.log[k]
    IN  /\ (~e.result.success /\ TransientFailure(e.reply)
              /\ k <= MaxRetriesOf(ServiceOf(d))) => e.branch = "retry"
        /\ e.result.success =>
             (k = Len(x.log) /\ x.pc = "done" /\ x.returned.success)

\* two retryable failures, then success at the third attempt
C13_Witness ==
  \E d \in Deliveries :
    LET x == Unit(d)
    IN  /\ x.pc = "done" /\ x.returned.success
        /\ Len(x.log) = 3
        /\ \A k \in 1..2 : ~x.log[k].result.success /\ TransientFailure(x.log[k].reply)
        /\ x.log[3].result.success

RECURSIVE SumBackoff(_)
SumBackoff(retries) ==
  IF retries = 0 THEN 0 ELSE BackoffDelay(retries) + SumBackoff(retries - 1)

\* C14: the elapsed time a delivery reports after retries is at least the sum of the
\* backoff delays it waited.
C14_ElapsedCoversBackoff ==
  \A d \in Deliveries :
    LET x == Unit(d)
    IN  (x.pc = "done" /\ Len(x.log) >= 2) =>
          x.returned.responseTime >= SumBackoff(Len(x.log) - 1)

\* C15: a failure that isRetryableError does not accept ends the delivery: it is the
\* last attempt and the delivery returns that attempt's result.
C15_TerminalEndsDelivery ==
  \A d \in Deliveries : \A k \in 1..Len(LogOf(d)) :
    LET x == Unit(d)
        e == x.log[k]
    IN  (~e.result.success /\ ~IsRetryableError(ServiceOf(d), e.result)) =>
          (k = Len(x.log) /\ x.pc = "done" /\ x.returned = e.result)

\* a terminal failure at the second attempt
C15_Witness ==
  \E d \in Deliveries :
    LET x == Unit(d)
    IN  /\ x.pc = "done" /\ Len(x.log) = 2
        /\ x.log[2].branch = "terminal"
        /\ x.log[1].result.responseTime > 0

OnePerService(list) ==
  /\ Len(list) = Len(Services)
  /\ \A s \in SvcIdx :
       Cardinality({k \in 1..Len(list) : list[k].service = Services[s].name}) = 1

C18_SingleUrlOnePerService ==
  (Answered /\ n = 1) =>
    /\ OnePerService(response.results)
    /\ \A k \in Aggregated : response.results[k].responseTime >= 0

\* a single-URL request was answered, one service failed and another succeeded
C18_Witness ==
  /\ Answered /\ n = 1
  /\ \E k \in Aggregated : ~response.results[k].success
  /\ \E k \in Aggregated :
       response.results[k].success /\ response.results[k].responseTime > 0

\* C19: with two URLs, a service that succeeds for the first and fails for the second
\* is reported failed with a "Partial" message; a service that succeeds for both is
\* reported successful.
C19_TwoUrlAggregation ==
  (Answered /\ n = 2) =>
    \A k \in Aggregated :
      LET r == response.results[k]
      IN  /\ (DeliveredOk(1, r.service) /\ FailedFor(2, r.service)) =>
               (~r.success /\ Includes(r.message, "Partial"))
          /\ (DeliveredOk(1, r.service) /\ DeliveredOk(2, r.service)) => r.success

\* two URLs: one service succeeded then failed, another succeeded for both
C19_Witness ==
  /\ Answered /\ n = 2
  /\ \E k \in Aggregated :
       /\ DeliveredOk(1, response.results[k].service)
       /\ FailedFor(2, response.results[k].service)
  /\ \E k \in Aggregated :
       /\ DeliveredOk(1, response.results[k].service)
       /\ DeliveredOk(2, response.results[k].service)

\* C20: whenever a service failed for one URL and succeeded for another, its
\* aggregated message tells of partial failure, whatever the order of the outcomes.
C20_PartialMessageAnyOrder ==
  Answered =>
    \A k \in Aggregated :
      LET r == response.results[k]
      IN  (\E u1, u2 \in 1..Len(resultsPerUrl) :
             DeliveredOk(u1, r.service) /\ FailedFor(u2, r.service)) =>
            Includes(r.message, "Partial")

(***************************************************************************)
(* The time budget and the batches                                         *)
(***************************************************************************)
\* the calls in flight: a fetch, or the reading of its response body
InFlight == {d \in Deliveries : Unit(d).pc \in {"attempt", "body"}}

\* some delivery of URL u has not finished
Busy(u) == \E s \in SvcIdx : dl[u][s].pc \in {"attempt", "body", "backoff"}

\* the number of the batch URL u belongs to, from 0
BatchOf(u) == (u - 1) \div BATCH_SIZE

\* the budget left when the processing of URL u began
RemainingAt(u) == MAX_FUNCTION_EXECUTION_MS - (checkedAt[u] - startTime)

\* C21: the deliveries of a URL are started only if at least 10 s of the budget
\* remain when its processing begins; otherwise no call is made for the URL and it
\* yields the single synthetic skip outcome.
C21_StartedOnlyWithMargin ==
  \A u \in UrlIdx :
    /\ fetches[u] > 0 => urlState[u] = "started"
    /\ urlState[u] = "started" => RemainingAt(u) >= SAFETY_MARGIN_MS
    /\ urlState[u] = "skipped" =>
         /\ RemainingAt(u) < SAFETY_MARGIN_MS
         /\ fetches[u] = 0
         /\ u <= Len(resultsPerUrl) =>
              /\ Len(resultsPerUrl[u]) = 1
              /\ resultsPerUrl[u][1].service = "System"
              /\ ~resultsPerUrl[u][1].success

\* a URL was skipped after an earlier one had its deliveries, and its outcome collected
C21_Witness ==
  \E u, v \in UrlIdx :
    /\ urlState[u] = "skipped" /\ u <= Len(resultsPerUrl)
    /\ urlState[v] = "started" /\ fetches[v] > 0

\* C22: the budget never aborts work in flight: every delivery that was started has
\* its outcome in the results the response is built from, also when the budget ran
\* out while its batch was executing.
C22_InFlightWorkCompletes ==
  Answered =>
    \A u \in UrlIdx :
      urlState[u] = "started" =>
        \A s \in SvcIdx :
          /\ HasOutcome(u, Services[s].name)
          /\ \E k \in Aggregated : response.results[k].service = Services[s].name

\* the response came after the budget was spent, with the outcomes of the last batch
C22_Witness ==
  /\ Answered
  /\ response.totalTime > MAX_FUNCTION_EXECUTION_MS
  /\ \E u \in UrlIdx :
       /\ urlState[u] = "started" /\ BatchOf(u) = BatchOf(Len(resultsPerUrl))
       /\ \A s \in SvcIdx : HasOutcome(u, Services[s].name)

\* C23: at every moment at most BATCH_SIZE x (1 + number of XML-RPC services) calls
\* are in flight, retries included.
C23_InFlightBounded ==
  Cardinality(InFlight) <= BATCH_SIZE * (1 + Len(XMLRPC_SERVICES))

\* a full batch in flight
C23_Witness ==
  Cardinality(InFlight) = BATCH_SIZE * (1 + Len(XMLRPC_SERVICES))

\* C24: batches run one after another: while a delivery of a URL is unfinished, its
\* retries included, no call is made for a URL of a later batch; the URLs of one
\* batch run concurrently.
C24_BatchesSequential ==
  \A u, v \in UrlIdx :
    (BatchOf(u) < BatchOf(v) /\ Busy(u)) => (~Busy(v) /\ fetches[v] = 0)

\* the two URLs of the second batch have calls in flight at the same time
C24_Witness ==
  \E u, v \in UrlIdx :
    /\ u # v /\ BatchOf(u) = BatchOf(v) /\ BatchOf(u) >= 1
    /\ \E s \in SvcIdx : dl[u][s].pc = "attempt"
    /\ \E s \in SvcIdx : dl[v][s].pc = "attempt"

(***************************************************************************)
(* Validation of the submitted urls array                                  *)
(***************************************************************************)
\* the handler has taken the request
Received == pc # "idle"

\* the request was answered with the validation failure and nothing was sent for it
RejectedUnsent == response.status = 400 /\ \A u \in UrlIdx : fetches[u] = 0

\* C25: a request whose urls array has 0 items or more than MAX_URLS items is answered
\* with the validation failure (HTTP 400) and no outbound call is made for it.
C25_ItemCountRejected ==
  (Received /\ (Len(request) = 0 \/ Len(request) > MAX_URLS)) => RejectedUnsent

\* the entry is not a string, blank, malformed or unsafe by isUrlSafe
InvalidEntry(e) == ~IsKept(e) \/ IsMalformed(e) \/ IsUnsafe(e)

\* C26: validation is all-or-nothing: when any entry of the submitted urls array is not
\* a string, blank, malformed or unsafe, the request is rejected and nothing is sent for
\* any URL; the handler never goes on with a subset of the submitted entries.
C26_AllOrNothing ==
  (Received /\ \E k \in DOMAIN request : InvalidEntry(request[k])) => RejectedUnsent

\* the host is loopback (127.0.0.0/8, ::1, localhost), private (10.0.0.0/8,
\* 172.16.0.0/12, 192.168.0.0/16, fc00::/8) or link-local (169.254.0.0/16, fe80::)
InternalHost(host) ==
  \/ host = HostName(<<"localhost">>)
  \/ /\ host.v = 4
     /\ \/ host.o[1] \in {127, 10}
        \/ host.o[1] = 172 /\ host.o[2] \in 16..31
        \/ host.o[1] = 192 /\ host.o[2] = 168
        \/ host.o[1] = 169 /\ host.o[2] = 254
  \/ /\ host.v = 6
     /\ host.text[2] \in {"::1", "fc00:", "fe80:"}

\* C27: a request that contains a URL whose host is loopback or in a private or
\* link-local range is rejected at validation with a reason, and no outbound call is
\* made for any URL of that request.
C27_InternalHostsRejected ==
  (Received /\ \E k \in DOMAIN request :
                 request[k].kind = "url" /\ InternalHost(request[k].host))
    => (RejectedUnsent /\ response.error # UNDEFINED /\ response.error # <<>>)

(***************************************************************************)
(* The XML-RPC parser and the end of the retry loop                        *)
(***************************************************************************)
\* the attempt read and parsed an XML-RPC response body
Parsed(d, e) ==
  /\ ServiceOf(d).method = "xmlrpc"
  /\ e.reply.kind = "http" /\ e.reply.status >= 200 /\ e.reply.status < 300
  /\ ~e.reply.bodyErr

\* C28: a response that contains a <fault> element is parsed as flerror=true whatever
\* its flerror member says, and the attempt's outcome is a failure.
C28_FaultAlwaysFails ==
  \A d \in Deliveries : \A k \in 1..Len(LogOf(d)) :
    LET e == LogOf(d)[k]
    IN  (Parsed(d, e) /\ e.reply.xml.fault) =>
          /\ ParseXmlRpcResponse(e.reply.xml).flerror
          /\ e.result.flerror /\ ~e.result.success

\* a response with a fault block and a flerror member of 0 was parsed
C28_Witness ==
  \E d \in Deliveries : \E k \in 1..Len(LogOf(d)) :
    LET e == LogOf(d)[k]
    IN  Parsed(d, e) /\ e.reply.xml.fault /\ e.reply.xml.flerror = "0" /\ ~e.result.success

\* the delivery made every attempt it was allowed and each failed
Exhausted(d) ==
  /\ Unit(d).pc = "done"
  /\ Len(LogOf(d)) >= 1
  /\ LogOf(d)[Len(LogOf(d))].branch = "exhausted"

\* ` (after ${count} attempts)`
AttemptsNote(count) == <<"(after", ToString(count), "attempts)">>

\* C29 as stated: when every attempt fails, the delivery returns the last attempt's
\* failure, its message extended by the attempt count maxRetries+1 and its
\* responseTime the sum of all attempts' response times.
C29_ExhaustedAnnotated ==
  \A d \in Deliveries :
    Exhausted(d) =>
      LET x == Unit(d)
          last == x.log[Len(x.log)].result
          m == MaxRetriesOf(ServiceOf(d))
      IN  /\ Len(x.log) = m + 1
          /\ ~x.returned.success
          /\ x.returned.message = last.message \o AttemptsNote(m + 1)
          /\ x.returned.responseTime = SumResponseTimes(x.log)

\* C29 amended: the message is extended by the attempt count when maxRetries is at
\* least 1; a delivery called with maxRetries = 0 returns the message unchanged.
C29_ExhaustedAnnotatedIfRetried ==
  \A d \in Deliveries :
    Exhausted(d) =>
      LET x == Unit(d)
          last == x.log[Len(x.log)].result
          m == MaxRetriesOf(ServiceOf(d))
      IN  /\ Len(x.log) = m + 1
          /\ ~x.returned.success
          /\ x.returned.message =
               IF m >= 1 THEN last.message \o AttemptsNote(m + 1) ELSE last.message
          /\ x.returned.responseTime = SumResponseTimes(x.log)
          /\ x.returned.statusCode = last.statusCode /\ x.returned.flerror = last.flerror

\* a delivery with retries failed at every attempt
C29_Witness ==
  \E d \in Deliveries :
    /\ Exhausted(d)
    /\ Len(LogOf(d)) >= 2
    /\ Includes(Unit(d).returned.message, "(after")

\* when the attempt after k failed ones of delivery x started, relative to the end of
\* the one before
WaitBefore(x, k, startedAt) == startedAt - (x.log[k].at + x.log[k].took)

\* C30: the first attempt of a delivery starts without a wait, and attempt n+1 starts
\* exactly RETRY_DELAY_MS * 2^(n-1) ms after attempt n ended, whatever the failure.
C30_BackoffExact ==
  \A d \in Deliveries :
    LET x == Unit(d)
    IN  /\ Len(x.log) >= 1 => x.log[1].at = checkedAt[d[1]]
        /\ \A k \in 1..(Len(x.log) - 1) :
             WaitBefore(x, k, x.log[k + 1].at) = RETRY_DELAY_MS * Pow2(k - 1)
        /\ (x.pc \in {"attempt", "body"} /\ Len(x.log) >= 1) =>
             WaitBefore(x, Len(x.log), x.started) = RETRY_DELAY_MS * Pow2(Len(x.log) - 1)

\* a third attempt was made, after failures of two different kinds
C30_Witness ==
  \E d \in Deliveries :
    /\ Len(LogOf(d)) = 3
    /\ LogOf(d)[1].reply.kind # LogOf(d)[2].reply.kind

(***************************************************************************)
(* The Retry-After hint                                                    *)
(***************************************************************************)
\* a WebSub attempt that was answered with 429 or 503
RateLimited(d, e) ==
  ServiceOf(d).method = "websub" /\ e.reply.kind = "http" /\ e.reply.status \in {429, 503}

\* when the headers of the attempt arrived
HeadersAt(e) == e.at + e.took

\* the whole seconds from instant t up to instant date, rounded up, none when date is past
SecondsUntil(date, t) ==
  IF date <= t THEN 0
  ELSE CHOOSE k \in 1..(date \div 1000 + 1) : k * 1000 >= date - t /\ (k - 1) * 1000 < date - t

\* C31: for a WebSub response with status 429 or 503 the retryAfter hint is a
\* non-negative number of seconds: the header's value when it is an integer,
\* max(0, ceil((date - now)/1000)) when it is an HTTP date, and 60 when the header is
\* absent or cannot be parsed.
C31_RetryAfterHint ==
  \A d \in Deliveries : \A k \in 1..Len(LogOf(d)) :
    LET e == LogOf(d)[k]
        h == e.reply.retryAfter
    IN  RateLimited(d, e) =>
          /\ e.result.retryAfter >= 0
          /\ h.k = "int" => e.result.retryAfter = h.v
          /\ h.k = "date" => e.result.retryAfter = SecondsUntil(h.v, HeadersAt(e))
          /\ h.k \in {"absent", "unparsed"} => e.result.retryAfter = 60

\* a 429 or 503 named a date a fraction of a second ahead of a whole number of seconds
C31_Witness ==
  \E d \in Deliveries : \E k \in 1..Len(LogOf(d)) :
    LET e == LogOf(d)[k]
    IN  /\ RateLimited(d, e)
        /\ e.reply.retryAfter.k = "date"
        /\ e.reply.retryAfter.v > HeadersAt(e)
        /\ (e.reply.retryAfter.v - HeadersAt(e)) % 1000 # 0
        /\ e.result.retryAfter * 1000 > e.reply.retryAfter.v - HeadersAt(e)

(***************************************************************************)
(* The status of the response                                              *)
(***************************************************************************)
\* the status the precedence gives a request
StatusByPrecedence(r) ==
  IF r.method = "OPTIONS" THEN 204
  ELSE IF r.method # "POST" THEN 405
  ELSE IF r.size > MAX_BODY_SIZE THEN 413
  ELSE IF r.body.kind = "unparseable" \/ ~ValidateBody(r.body).valid THEN 400
  ELSE IF r.throws THEN 500
  ELSE 200

\* C32: the handler answers every request with exactly one status chosen by this
\* precedence: OPTIONS gives 204; any other non-POST method gives 405; a body larger
\* than MAX_BODY_SIZE gives 413; unparseable JSON or failed validation gives 400; an
\* unexpected exception gives 500 with empty results; otherwise 200, also when every
\* service failed.
C32_StatusByPrecedence ==
  /\ pc # "done" => response = NoResponse
  /\ pc = "done" =>
       /\ response.status = StatusByPrecedence(req)
       /\ response.status = 500 => response.results = <<>>

(***************************************************************************)
(* The order of the aggregation                                            *)
(***************************************************************************)
\* the earliest input URL that has an outcome for the service
EarliestWith(service) ==
  CHOOSE u \in 1..Len(resultsPerUrl) :
    HasOutcome(u, service) /\ \A v \in 1..(u - 1) : ~HasOutcome(v, service)

\* the outcome of URL u for the service
OutcomeOf(u, service) ==
  resultsPerUrl[u][CHOOSE k \in 1..Len(resultsPerUrl[u]) :
                     resultsPerUrl[u][k].service = service]

\* the list bears the site name of URL u in each message
BearsSiteOf(urlResults, u) ==
  \A k \in 1..Len(urlResults) :
    LET m == urlResults[k].message
    IN  Len(m) >= 4 /\ SubSeq(m, Len(m) - 3, Len(m)) = <<"(">> \o SiteName(u) \o <<")">>

\* the longest responseTime among the outcomes of URL u
SlowestOf(u) ==
  CHOOSE t \in {resultsPerUrl[u][k].responseTime : k \in 1..Len(resultsPerUrl[u])} :
    \A k \in 1..Len(resultsPerUrl[u]) : resultsPerUrl[u][k].responseTime <= t

\* C33: although the URLs of a batch run concurrently, the per-URL result lists are
\* folded in input URL order: the u-th list is that of the u-th URL, and the aggregate
\* of each service is seeded by the outcome of the earliest input URL that has an
\* outcome for it, whichever URL's deliveries finished first.
C33_FoldedInInputOrder ==
  /\ \A u \in 1..Len(resultsPerUrl) : BearsSiteOf(resultsPerUrl[u], u)
  /\ Answered =>
       \A k \in Aggregated :
         LET agg == response.results[k]
             seed == OutcomeOf(EarliestWith(agg.service), agg.service)
         IN  /\ agg.responseTime = seed.responseTime
             /\ agg.method = seed.method
             /\ agg.message \in {seed.message, <<"Partial", ":", "some URLs failed">>}
             /\ ~seed.success => agg = seed

\* the second URL of the first batch had all its outcomes before the first URL had its
\* last one, and the aggregates bear the first URL's site name
C33_Witness ==
  /\ Answered
  /\ Len(resultsPerUrl) >= 2
  /\ resultsPerUrl[1] # <<>> /\ resultsPerUrl[2] # <<>>
  /\ SlowestOf(2) < SlowestOf(1)
  /\ \E k \in Aggregated :
       /\ ~response.results[k].success
       /\ response.results[k].responseTime = SlowestOf(1)
       /\ BearsSiteOf(<<response.results[k]>>, 1)

(***************************************************************************)
(* The browser client                                                      *)
(***************************************************************************)
\* the run loop of r is suspended at an await
Suspended(r) == runs[r].pc \in {"ping", "delay", "paused"}

\* C34: for one PingController, after any sequence of start(), stop(), pause(),
\* resume() and reset() calls, at most one run loop is issuing pings at any time, and
\* a run that was stopped never issues another ping or reports another result, also
\* when start() is called again before the stopped run's in-flight ping has returned.
C34_OneRunLoop ==
  /\ Cardinality({r \in RunIdx : Suspended(r) /\ ~runs[r].stopped}) <= 1
  /\ \A r \in RunIdx : ~runs[r].late

\* C35: a paused run is always released: no run loop waits for a pause promise that
\* is neither resolved nor the one resume(), stop() or reset() would resolve, so no
\* run stays suspended forever.
C35_PausedRunReleased ==
  \A r \in RunIdx :
    runs[r].pc = "paused" =>
      (runs[r].awaiting \in ctl.resolved \/ runs[r].awaiting = ctl.pauseResolve)

\* C36: in every progress report of a run completed = successes + errors and
\* completed <= total = number of URLs x number of services; completed never
\* decreases; completed reaches total exactly when the run was never stopped.
C36_ProgressCounts ==
  /\ [](\A r \in RunIdx :
          /\ runs[r].completed = runs[r].successes + runs[r].errors
          /\ runs[r].completed <= runs[r].total
          /\ runs[r].total = runs[r].urls * NumPingServices
          /\ runs[r].stopped => runs[r].completed < runs[r].total
          /\ (runs[r].pc = "ended" /\ ~runs[r].stopped) =>
               runs[r].completed = runs[r].total)
  /\ [][\A r \in RunIdx : runs'[r].completed >= runs[r].completed]_vars

\* C37: within one run the client sends at most one POST /api/ping request per URL:
\* after the first service's ping for a URL the results of the remaining services are
\* served from the response cache.
C37_OnePostPerUrl == \A r \in RunIdx : \A u \in ClientUrls : posts[r][u] <= 1

\* the requests granted for the key in the window that is running
GrantedInWindow(key) == IF WindowRuns(granted[key], clock) THEN granted[key].requests ELSE 0

====
